---- MODULE Spec2Model ----
(***************************************************************************)
(* Model of the ProductParcer ingestion pipeline (src/app/main.py and its  *)
(* helpers): the /ingest handler, the PROGRESS tracker, the per-record     *)
(* validation and the replacement of the product table.                    *)
(*                                                                         *)
(* Text is modelled as a sequence of one-character strings, so that strip, *)
(* lower, slicing and digit counting are computed, not assumed.  Python's  *)
(* None is the value None below, which is no text.                         *)
(***************************************************************************)
EXTENDS Integers, Sequences, FiniteSets, TLC

VARIABLES
    PROGRESS,   \* main.py 29-34: the process-wide progress tracker
    db,         \* the committed rows of the product table, in insertion order
    pc,         \* pc[r]: where request r of /ingest stands
    raised,     \* raised[r]: the exception that left _ingest_impl, if any
    tasks,      \* tasks[r]: the guarded_validate tasks of run r, one per row,
                \* each with what the network answered, the number of
                \* requests its image probe made and what it returned
    products,   \* products[r]: the results of run r, in completion order
    response,   \* response[r]: what /ingest answered
    issued,     \* issued[r]: statements run r has issued against the table
    before,     \* before[r]: the committed rows when r was triggered
    foreign,    \* foreign[r]: another run committed a change since then
    loop,       \* the run whose synchronous tail holds the event loop, or 0
    env,        \* the process environment: CSV_URL and whether products.csv exists
    fetched     \* fetched[r]: the bytes fetch_csv_bytes returned to run r

vars == <<PROGRESS, db, pc, raised, tasks, products, response, issued,
          before, foreign, loop, env, fetched>>

\* ------------------------------------------------------------------ bounds

\* Number of /ingest requests the model lets arrive.
MaxRuns == 2

\* Number of data lines in the longest feed of a run on its own.
MaxRows == 2

\* Number of records beyond the concurrency ceiling in the longest feed of
\* the run that fills the pool.
MaxOver == 2

\* ------------------------------------------------------------------- text

None == <<"<None>">>

NBSP == "<nbsp>"

Whitespace == {" ", "\t", "\n", "\r", NBSP}

Digits == {"0", "1", "2", "3", "4", "5", "6", "7", "8", "9"}

UpperAlpha == <<"A","B","C","D","E","F","G","H","I","J","K","L","M",
                "N","O","P","Q","R","S","T","U","V","W","X","Y","Z">>

LowerAlpha == <<"a","b","c","d","e","f","g","h","i","j","k","l","m",
                "n","o","p","q","r","s","t","u","v","w","x","y","z">>

\* str.lower() on one character.
LowerChar(c) ==
    IF \E i \in 1..26 : UpperAlpha[i] = c
    THEN LowerAlpha[CHOOSE i \in 1..26 : UpperAlpha[i] = c]
    ELSE c

\* str.lower()
Lower(s) == [i \in 1..Len(s) |-> LowerChar(s[i])]

\* str.strip(): drop leading and trailing whitespace.
Strip(s) ==
    LET keep == {i \in 1..Len(s) : s[i] \notin Whitespace}
    IN  IF keep = {} THEN <<>>
        ELSE LET lo == CHOOSE i \in keep : \A j \in keep : i <= j
                 hi == CHOOSE i \in keep : \A j \in keep : j <= i
             IN  SubSeq(s, lo, hi)

\* s[:n]
Prefix(s, n) == SubSeq(s, 1, IF Len(s) < n THEN Len(s) ELSE n)

\* Python truthiness of an optional text: None and "" are falsy.
Truthy(s) == s # None /\ s # <<>>

\* "".join(c for c in s if keep(c)), as str.replace(x, "") does for one character.
RECURSIVE Without(_, _)
Without(s, drop) ==
    IF s = <<>> THEN <<>>
    ELSE IF Head(s) \in drop THEN Without(Tail(s), drop)
         ELSE <<Head(s)>> \o Without(Tail(s), drop)

\* str.replace(a, b) for single characters a, b.
ReplaceChar(s, a, b) == [i \in 1..Len(s) |-> IF s[i] = a THEN b ELSE s[i]]

\* The value of a run of decimal digits.
DigitVal(c) ==
    CASE c = "0" -> 0 [] c = "1" -> 1 [] c = "2" -> 2 [] c = "3" -> 3
      [] c = "4" -> 4 [] c = "5" -> 5 [] c = "6" -> 6 [] c = "7" -> 7
      [] c = "8" -> 8 [] c = "9" -> 9

RECURSIVE DecVal(_)
DecVal(s) == IF s = <<>> THEN 0 ELSE 10 * DecVal(SubSeq(s, 1, Len(s) - 1)) + DigitVal(s[Len(s)])

\* ------------------------------------------------------ numeric coercion

\* A float is [kind |-> "num", mant, scale]: mant / 10^scale; or nan; or +-inf.
NoFloat == [kind |-> "none"]

\* float(s) for the literal forms of a feed: optional sign, digits with at most
\* one point and at least one digit, or nan / inf / infinity in any case;
\* surrounding whitespace is ignored. Anything else a feed of the modelled
\* world holds raises ValueError (NoFloat); exponents and digit separators,
\* which float() also reads, are not among its texts.
PyFloat(raw) ==
    LET s    == Lower(Strip(raw))
        neg  == s # <<>> /\ s[1] = "-"
        body == IF s # <<>> /\ s[1] \in {"+", "-"} THEN Tail(s) ELSE s
        dots == {i \in 1..Len(body) : body[i] = "."}
        digs == Without(body, {"."})
    IN  IF body = <<"n","a","n">> THEN [kind |-> "nan"]
        ELSE IF body \in {<<"i","n","f">>, <<"i","n","f","i","n","i","t","y">>}
             THEN [kind |-> "inf", neg |-> neg]
        ELSE IF /\ digs # <<>>
                /\ \A i \in 1..Len(digs) : digs[i] \in Digits
                /\ Cardinality(dots) <= 1
             THEN [kind  |-> "num",
                   mant  |-> (IF neg THEN -1 ELSE 1) * DecVal(digs),
                   scale |-> IF dots = {} THEN 0
                             ELSE Len(body) - (CHOOSE i \in dots : TRUE)]
        ELSE NoFloat

\* to_float: None stays None; spaces and NBSP are removed and ',' becomes '.'.
to_float(v) ==
    IF v = None THEN NoFloat
    ELSE PyFloat(ReplaceChar(Without(v, {" ", NBSP}), ",", "."))

\* p.price <= 0 on a float (False for nan).
FloatLeqZero(f) ==
    CASE f.kind = "num" -> f.mant <= 0
      [] f.kind = "inf" -> f.neg
      [] OTHER          -> FALSE

\* --------------------------------------------------------- identifier check

T_dash == <<"-">>
T_zero == <<"0">>
T_None == <<"N","o","n","e">>

\* The placeholder sentinels {"-", "0", "None", ""}.
Sentinels == {T_dash, T_zero, T_None, <<>>}

T_identifier_exists ==
    <<"i","d","e","n","t","i","f","i","e","r","_","e","x","i","s","t","s">>

\* IDENTIFIER_MISSING_PAT.search(s): identifier_exists\s*=\s*no, ignoring case.
IdentifierMissingPat(s) ==
    LET t == Lower(s)
        n == Len(T_identifier_exists)
        AllWs(a, b) == \A k \in a..b : t[k] \in Whitespace
    IN  \E i \in 1..(Len(t) - n + 1) :
            /\ SubSeq(t, i, i + n - 1) = T_identifier_exists
            /\ \E e \in (i + n)..Len(t) :
                  /\ AllWs(i + n, e - 1)
                  /\ t[e] = "="
                  /\ \E o \in (e + 1)..(Len(t) - 1) :
                        /\ AllWs(e + 1, o - 1)
                        /\ t[o] = "n" /\ t[o + 1] = "o"

\* "".join(c for c in s if c.isdigit())
RECURSIVE OnlyDigits(_)
OnlyDigits(s) ==
    IF s = <<>> THEN <<>>
    ELSE IF Head(s) \in Digits THEN <<Head(s)>> \o OnlyDigits(Tail(s))
         ELSE OnlyDigits(Tail(s))

is_identifier_missing(ean_field) ==
    IF ~Truthy(ean_field) \/ Strip(ean_field) \in Sentinels THEN TRUE
    ELSE IF IdentifierMissingPat(ean_field) THEN TRUE
    ELSE Len(OnlyDigits(ean_field)) \notin {8, 12, 13, 14}

\* The status taken from the digit count alone, without the not-found marker.
EanStatus_digitsOnly(ean) ==
    IF ~Truthy(ean) \/ Strip(ean) \in Sentinels THEN "missing"
    ELSE IF Len(OnlyDigits(ean)) \notin {8, 12, 13, 14} THEN "wrong" ELSE "ok"

\* main.py 97-103: the stored identifier status.
EanStatus(ean) ==
    LET missing_id == is_identifier_missing(IF Truthy(ean) THEN ean ELSE <<>>)
    IN  IF ~Truthy(ean) \/ Strip(ean) \in Sentinels THEN "missing"
        ELSE IF missing_id THEN "wrong" ELSE "ok"

\* -------------------------------------------------------------- image check

\* The answer of one HTTP request: a network exception, or a status code.
NetErr == [exc |-> TRUE, status |-> 0]

Resp(code) == [exc |-> FALSE, status |-> code]

T_http == <<"h","t","t","p">>

StartsWith(s, pre) == Len(s) >= Len(pre) /\ SubSeq(s, 1, Len(pre)) = pre

\* The probe that takes the answer to the HEAD as final.
ImageProbe_headOnly(url, head, get) ==
    IF ~Truthy(url) \/ ~StartsWith(url, T_http)
    THEN [ok |-> FALSE, requests |-> 0]
    ELSE [ok |-> ~head.exc /\ head.status < 400, requests |-> 1]

\* check_image_ok on the answers the HEAD and the ranged GET would get:
\* the verdict and the number of requests made.
ImageProbe(url, head, get) ==
    IF ~Truthy(url) \/ ~StartsWith(url, T_http)
    THEN [ok |-> FALSE, requests |-> 0]
    ELSE IF head.exc THEN [ok |-> FALSE, requests |-> 1]
    ELSE IF head.status >= 400 \/ head.status = 405
         THEN IF get.exc THEN [ok |-> FALSE, requests |-> 2]
              ELSE [ok |-> get.status < 400, requests |-> 2]
    ELSE [ok |-> head.status < 400, requests |-> 1]

check_image_ok(url, head, get) == ImageProbe(url, head, get).ok

\* -------------------------------------------------------------- title check

\* What the title-assessment call hands back to validate_and_build: it raises,
\* it returns None, or it returns a dict with name_quality and suggested_title.
AssessRaise == [kind |-> "raise"]

AssessNone == [kind |-> "none"]

AssessDict(q, sug) == [kind |-> "dict", name_quality |-> q, suggested_title |-> sug]

\* The call left outside the try block: its exception is not caught.
TryAssess_uncaught(outcome) == outcome

\* main.py 114-117: try: assess = await ...; except Exception: assess = None
TryAssess(outcome) == IF outcome.kind = "raise" THEN AssessNone ELSE outcome

T_ok    == <<"o","k">>
T_weak  == <<"w","e","a","k">>
T_empty == <<"e","m","p","t","y">>

\* main.py 132 / 140: not p.name or not str(p.name).strip()
NameBlank(name) == ~Truthy(name) \/ Strip(name) = <<>>

\* The fallback that does not look at the name.
PresenceOnly_alwaysOk(name) == [name_status |-> "OK", name_suggested |-> None]

\* main.py 139-145 (and 131-137): the presence-only rule.
PresenceOnly(name) ==
    [name_status    |-> IF NameBlank(name) THEN "empty" ELSE "OK",
     name_suggested |-> None]

\* The suggestion stored at its full length.
Suggested_untruncated(sug) ==
    IF sug # None /\ Strip(sug) # <<>> THEN Strip(sug) ELSE None

\* main.py 127 / 130: (sug or "").strip()[:1024] if isinstance(sug, str) and sug.strip() else None
Suggested(sug) ==
    IF sug # None /\ Strip(sug) # <<>> THEN Prefix(Strip(sug), 1024) ELSE None

\* main.py 119-145: from the assessment (after the try/except) to the title status.
TitleResolution(assess, name) ==
    IF assess.kind = "dict"
    THEN LET q == Lower(Strip(IF Truthy(assess.name_quality)
                              THEN assess.name_quality ELSE <<>>))
         IN  IF q = T_ok
             THEN [name_status |-> "OK", name_suggested |-> None]
             ELSE IF q = T_weak
             THEN [name_status |-> "weak",
                   name_suggested |-> Suggested(assess.suggested_title)]
             ELSE IF q = T_empty
             THEN [name_status |-> "empty",
                   name_suggested |-> Suggested(assess.suggested_title)]
             ELSE PresenceOnly(name)
    ELSE PresenceOnly(name)

\* The overall result computed before the title was added to it.
ValidationResult_ignoresTitle(price_status, ean_status, image_status, name_status) ==
    IF price_status = "ok" /\ ean_status = "ok" /\ image_status = "ok"
    THEN "OK" ELSE "ISSUE"

\* main.py 147-157
ValidationResult(price_status, ean_status, image_status, name_status) ==
    IF /\ price_status = "ok"
       /\ ean_status = "ok"
       /\ image_status = "ok"
       /\ name_status = "OK"
    THEN "OK" ELSE "ISSUE"

\* ------------------------------------------------------------------- feed

K_Produktnamn == <<"P","r","o","d","u","k","t","n","a","m","n">>
K_Pris        == <<"P","r","i","s">>
K_EAN         == <<"E","A","N">>
K_BildURL     == <<"B","i","l","d","U","R","L">>

\* The message of the RuntimeError parse_semicolon_csv raises.
ParseErrorMsg == "CSV header missing or wrong delimiter; expected semicolons ';'."

ParseFailed == [ok |-> FALSE, error |-> ParseErrorMsg]

\* csv.DictReader's row for one data line: dict(zip(fieldnames, row)), the
\* missing trailing fields set to restval (None), the extra ones kept as a
\* list under restkey (None).
DictRow(fieldnames, line) ==
    LET lf   == Len(fieldnames)
        lr   == Len(line)
        keys == {fieldnames[k] : k \in 1..lf}
        Last(key) == CHOOSE k \in 1..lf :
                        /\ fieldnames[k] = key
                        /\ \A j \in 1..lf : fieldnames[j] = key => j <= k
        zipped == [key \in keys |->
                     IF Last(key) <= lr THEN line[Last(key)] ELSE None]
    IN  IF lf < lr
        THEN [key \in keys \cup {None} |->
                 IF key = None THEN SubSeq(line, lf + 1, lr) ELSE zipped[key]]
        ELSE zipped

\* The lines csv.reader yields are sequences of fields; a blank line is <<>>.
\* parse_semicolon_csv (a generator, drained by list() in _ingest_impl): the
\* first line is the header, blank data lines are skipped.
RECURSIVE DataRows(_, _)
DataRows(fieldnames, lines) ==
    IF lines = <<>> THEN <<>>
    ELSE IF Head(lines) = <<>> THEN DataRows(fieldnames, Tail(lines))
         ELSE <<DictRow(fieldnames, Head(lines))>> \o DataRows(fieldnames, Tail(lines))

parse_semicolon_csv(content) ==
    IF content = <<>> \/ Head(content) = <<>> THEN ParseFailed
    ELSE [ok |-> TRUE, rows |-> DataRows(Head(content), Tail(content))]

\* dict.get
Get(r, key) == IF key \in DOMAIN r THEN r[key] ELSE None

\* main.py 69-85, for the fields validation reads.
map_row(r) ==
    [name      |-> Get(r, K_Produktnamn),
     ean       |-> Get(r, K_EAN),
     price     |-> to_float(Get(r, K_Pris)),
     image_url |-> Get(r, K_BildURL)]

\* ------------------------------------------------------- validate_and_build

\* The exception a task ends with when one escapes validate_and_build.
Raised == [exc |-> TRUE]

\* main.py 87-159. head, get and outcome are what the network answers to the
\* image probe and the title assessment of this record.
\* The record is taken to carry name_status and name_suggested, which lines
\* 123-145 assign and lines 154 and 184 read; models.py 10-42 does not declare
\* them, as ai_title.py does not define the assessment call main.py imports.
validate_and_build(p_dict, head, get, outcome) ==
    LET missing_price == p_dict.price.kind = "none" \/ FloatLeqZero(p_dict.price)
        price_status  == IF missing_price THEN "missing" ELSE "ok"
        missing_id    == is_identifier_missing(
                             IF Truthy(p_dict.ean) THEN p_dict.ean ELSE <<>>)
        ean_status    == EanStatus(p_dict.ean)
        ok_img        == check_image_ok(p_dict.image_url, head, get)
        image_status  == IF ok_img THEN "ok" ELSE "broken"
        assess        == TryAssess(outcome)
        title         == TitleResolution(assess, p_dict.name)
    IN  IF assess.kind = "raise" THEN Raised
        ELSE [exc                |-> FALSE,
              name               |-> p_dict.name,
              ean                |-> p_dict.ean,
              price              |-> p_dict.price,
              image_url          |-> p_dict.image_url,
              missing_price      |-> missing_price,
              missing_identifier |-> missing_id,
              broken_image       |-> ~ok_img,
              price_status       |-> price_status,
              ean_status         |-> ean_status,
              image_status       |-> image_status,
              name_status        |-> title.name_status,
              name_suggested     |-> title.name_suggested,
              validation_result  |-> ValidationResult(price_status, ean_status,
                                         image_status, title.name_status)]

\* ----------------------------------------------------------------- summary

NoSummary == [none |-> TRUE]

\* The summary that counts the records without issues as flagged.
Summary_countsOk(ps) ==
    LET HasExample(p) == p.name_status \in {"weak", "empty"} /\ Truthy(p.name_suggested)
        ex            == {i \in 1..Len(ps) : HasExample(ps[i])}
        first         == CHOOSE i \in ex : \A j \in ex : i <= j
    IN  [ingested               |-> Len(ps),
         flagged_issues         |-> Cardinality({i \in 1..Len(ps) :
                                                    ps[i].validation_result = "OK"}),
         example_improved_title |-> IF ex = {} THEN None ELSE ps[first].name_suggested,
         example_old_title      |-> IF ex = {} THEN None ELSE ps[first].name]

\* main.py 183-191
Summary(ps) ==
    LET HasExample(p) == p.name_status \in {"weak", "empty"} /\ Truthy(p.name_suggested)
        IsIssue(p)    == p.validation_result # "OK"
        ex            == {i \in 1..Len(ps) : HasExample(ps[i])}
        first         == CHOOSE i \in ex : \A j \in ex : i <= j
    IN  [ingested               |-> Len(ps),
         flagged_issues         |-> Cardinality({i \in 1..Len(ps) : IsIssue(ps[i])}),
         example_improved_title |-> IF ex = {} THEN None ELSE ps[first].name_suggested,
         example_old_title      |-> IF ex = {} THEN None ELSE ps[first].name]

\* ---------------------------------------------------------------- PROGRESS

\* main.py 63-67
InitProgress(P, n) ==
    [P EXCEPT !.running = TRUE, !.total = n, !.done = 0, !.summary = NoSummary]

\* main.py 166
BumpDone(P) == [P EXCEPT !.done = @ + 1]

\* main.py 193-194
FinishProgress(P, out) == [P EXCEPT !.summary = out, !.running = FALSE]

\* The except clause that forgets the flag.
FailProgress_keepsRunning(P) == P

\* A failure that also clears the tracker of the previous run.
FailProgress_resets(P) ==
    [running |-> FALSE, total |-> 0, done |-> 0, summary |-> NoSummary]

\* main.py 202-203
FailProgress(P) == [P EXCEPT !.running = FALSE]

\* The handler that answers a fixed text instead of the exception.
ErrorResponse_generic(e) == [status |-> 500, error |-> "Internal Server Error"]

\* main.py 205: JSONResponse({"error": str(e)}, status_code=500)
ErrorResponse(e) == [status |-> 500, error |-> e]

\* main.py 201: JSONResponse(out)
OkResponse(out) == [status |-> 200, body |-> out]

NoResponse == [status |-> 0]

\* ------------------------------------------------------ the modelled world

T_Bike   == <<"B","i","k","e">>
T_Better == <<"B","e","t","t","e","r">>
T_price  == <<"1"," ","2","3","4",",","5","0">>
T_ean13  == <<"1","2","3","4","5","6","7","8","9","0","1","2","3">>
T_img    == <<"h","t","t","p",":","/","/","i">>

Header == <<K_Produktnamn, K_Pris, K_EAN, K_BildURL>>

\* Data lines: a complete one; a short one (blank name, price 0, the rest
\* missing); one with an unparsable price, a malformed identifier and an
\* image that is no http URL; one with no name and a placeholder identifier;
\* a second complete one.
T_12AB == <<"1","2","A","B">>
T_abc  == <<"a","b","c">>
T_ftp  == <<"f","t","p",":","/","/","i">>

LineGood  == <<T_Bike, T_price, T_ean13, T_img>>
LineShort == <<<<" ">>, T_zero>>
LineOdd   == <<T_Bike, T_abc, T_12AB, T_ftp>>
LineBare  == <<<<>>, T_price, T_dash, T_img>>
LineFine  == <<T_Better, T_price, T_ean13, T_img>>

Lines == <<LineGood, LineShort, LineOdd, LineBare, LineFine>>

\* The feed of n data lines taken from Lines in turn, starting at the k-th.
Feed(n, k) == <<Header>> \o [i \in 1..n |-> Lines[((k + i - 2) % Len(Lines)) + 1]]

\* ---------------------------------------------------------------- fetching

\* The environment of the process: CSV_URL (None when unset) and whether the
\* file products.csv exists in the working directory.
DefaultEnv == [csv_url |-> None, local |-> FALSE]

T_override_csv == <<"h","t","t","p",":","/","/","h","/","F",".","C","S","V">>
T_override_dir == <<"h","t","t","p",":","/","/","h","/","d">>
T_dot_csv      == <<".","c","s","v">>

Envs == {[csv_url |-> u, local |-> l] :
            u \in {None, <<>>, T_override_csv, T_override_dir}, l \in BOOLEAN}

NoContent == [none |-> TRUE]

\* str.endswith
EndsWith(s, suf) ==
    Len(s) >= Len(suf) /\ SubSeq(s, Len(s) - Len(suf) + 1, Len(s)) = suf

\* What the remote side of one fetch does: it serves a feed, or it does not
\* (an error status for a file, a listing without a .csv link for an index).
Remote(contents) == {[ok |-> FALSE]} \cup {[ok |-> TRUE, content |-> c] : c \in contents}

DownloadErrorMsg == "Client error '404 Not Found' for url 'http://h/F.CSV'"

OverrideNoLinkMsg == "No .csv links found at index http://h/d/"

FetchErrorMsg == "No .csv links found at index https://hefitness.se/csv/"

FetchErrors == {DownloadErrorMsg, OverrideNoLinkMsg, FetchErrorMsg}

\* ingest.py 10-13: r.raise_for_status() raises on an error status.
download(remote) ==
    IF remote.ok THEN remote ELSE [ok |-> FALSE, error |-> DownloadErrorMsg]

\* ingest.py 15-38: RuntimeError when the listing holds no .csv link.
find_csv_from_index(remote, nolink) ==
    IF remote.ok THEN remote ELSE [ok |-> FALSE, error |-> nolink]

\* ingest.py 40-63: the override if CSV_URL is set, else the local file if it
\* exists, else the default listing; whatever the chosen one raises leaves
\* fetch_csv_bytes. file is what products.csv holds.
fetch_csv_bytes(e, remote, file) ==
    IF Truthy(e.csv_url)
    THEN IF EndsWith(Lower(e.csv_url), T_dot_csv)
         THEN download(remote)
         ELSE find_csv_from_index(remote, OverrideNoLinkMsg)
    ELSE IF e.local THEN [ok |-> TRUE, content |-> file]
    ELSE find_csv_from_index(remote, FetchErrorMsg)

\* The results fetch_csv_bytes can have in the current environment.
FetchOutcomes(contents) ==
    {fetch_csv_bytes(env, remote, file) : remote \in Remote(contents), file \in contents}

\* What the network answers for one record: to the HEAD and the ranged GET of
\* the image probe, and to the title assessment.
Answer(head, get, outcome) == [head |-> head, get |-> get, outcome |-> outcome]

NoAnswer == [none |-> TRUE]

\* With requests overlapping: no text at all, a header alone or one data
\* line; and per record either a reachable image with a failing assessment or
\* an unreachable image with an assessment that suggests a title.
Contents == {<<>>, Feed(0, 1), Feed(1, 1)}

Answers == {Answer(Resp(200), Resp(200), AssessRaise),
            Answer(NetErr, NetErr, AssessDict(T_weak, T_Better))}

\* With one request on its own: feeds of up to MaxRows lines, and the answers
\* below, which pair every kind of probe result with every kind of assessment
\* result (a raise, None, each recognised quality in some spelling, an
\* unrecognised one; a suggestion, a blank one, none).
T_OK            == <<"O","K">>
T_Weak_padded   == <<" ","W","e","a","k"," ">>
T_cant_generate == <<"c","a","n","t","_","g","e","n","e","r","a","t","e">>
T_missed        == <<"m","i","s","s","e","d">>
T_blank         == <<" "," ">>

RunContents == {<<>>} \cup {Feed(n, k) : n \in 0..MaxRows, k \in 1..Len(Lines)}

RunAnswers ==
    {Answer(Resp(200), Resp(200), AssessDict(T_ok, T_Better)),
     Answer(Resp(200), Resp(200), AssessRaise),
     Answer(Resp(200), Resp(200), AssessNone),
     Answer(Resp(200), Resp(200), AssessDict(T_cant_generate, T_Better)),
     Answer(NetErr,    NetErr,    AssessNone),
     Answer(NetErr,    NetErr,    AssessRaise),
     Answer(NetErr,    NetErr,    AssessDict(T_missed, None)),
     Answer(Resp(405), Resp(206), AssessDict(T_weak, T_Better)),
     Answer(Resp(404), Resp(404), AssessDict(T_Weak_padded, T_blank)),
     Answer(Resp(405), NetErr,    AssessDict(T_empty, None)),
     Answer(Resp(500), Resp(200), AssessDict(T_OK, None))}

DbErrorMsg == "OperationalError"

TaskErrorMsg == "task raised"

\* asyncio.Semaphore(8), main.py 161
SemLimit == 8

Runs == 1..MaxRuns

\* ------------------------------------------------------------ initial state

InitIn(envs) ==
    /\ PROGRESS = [running |-> FALSE, total |-> 0, done |-> 0, summary |-> NoSummary]
    /\ db = <<>>
    /\ pc = [r \in Runs |-> "idle"]
    /\ raised = [r \in Runs |-> ""]
    /\ tasks = [r \in Runs |-> <<>>]
    /\ products = [r \in Runs |-> <<>>]
    /\ response = [r \in Runs |-> NoResponse]
    /\ issued = [r \in Runs |-> 0]
    /\ before = [r \in Runs |-> <<>>]
    /\ foreign = [r \in Runs |-> FALSE]
    /\ loop = 0
    /\ env \in envs
    /\ fetched = [r \in Runs |-> NoContent]

\* CSV_URL unset and no products.csv: the feed comes from the default listing.
Init == InitIn({DefaultEnv})

\* ------------------------------------------------------------------ /ingest

InFlight(r) == pc[r] \in {"fetch", "validate", "replace", "insert"}

\* Another run is told of a committed change of the table.
Touch(r, changed) ==
    [s \in Runs |-> IF s # r /\ InFlight(s) /\ changed THEN TRUE ELSE foreign[s]]

\* main.py 202-205: the except clause of ingest, entered with exception e.
\* The locals of _ingest_impl are gone once the request is answered.
Abort(r, e) ==
    /\ PROGRESS' = FailProgress(PROGRESS)
    /\ response' = [response EXCEPT ![r] = ErrorResponse(e)]
    /\ raised' = [raised EXCEPT ![r] = e]
    /\ pc' = [pc EXCEPT ![r] = "failed"]
    /\ products' = [products EXCEPT ![r] = <<>>]
    /\ before' = [before EXCEPT ![r] = <<>>]
    /\ foreign' = [foreign EXCEPT ![r] = FALSE]
    /\ fetched' = [fetched EXCEPT ![r] = NoContent]
    /\ loop' = 0
    /\ UNCHANGED env

\* main.py 197-200 and 56-58: a request enters ingest and _ingest_impl and
\* waits for fetch_csv_bytes. Requests are numbered in the order they arrive.
Trigger(r) ==
    /\ pc[r] = "idle"
    /\ loop = 0
    /\ IF r = 1 THEN TRUE ELSE pc[r - 1] # "idle"
    /\ pc' = [pc EXCEPT ![r] = "fetch"]
    /\ before' = [before EXCEPT ![r] = db]
    /\ foreign' = [foreign EXCEPT ![r] = FALSE]
    /\ UNCHANGED <<PROGRESS, db, raised, tasks, products, response, issued, loop,
                   env, fetched>>

\* main.py 58-70 and 161-172: the fetch returns; the feed is parsed, PROGRESS
\* is initialised and one task per row is created, up to the first await of a
\* result. With no rows there is nothing to await and the run goes on to the
\* replacement without yielding. The tasks take the semaphore in the order
\* they were created: the first SemLimit of them run validate_and_build up to
\* its first network call, the others wait for a release (which touches
\* nothing but the task itself, so it is not a step of its own).
FetchDoneIn(r, contents) ==
    /\ pc[r] = "fetch"
    /\ loop = 0
    /\ \E out \in FetchOutcomes(contents) :
         LET parsed == IF out.ok THEN parse_semicolon_csv(out.content) ELSE out
         IN  IF ~parsed.ok
             THEN /\ Abort(r, parsed.error)
                  /\ UNCHANGED <<tasks>>
             ELSE /\ PROGRESS' = InitProgress(PROGRESS, Len(parsed.rows))
                  /\ tasks' = [tasks EXCEPT ![r] =
                        [i \in 1..Len(parsed.rows) |->
                            [st     |-> IF i <= SemLimit THEN "running" ELSE "pending",
                             p_dict |-> map_row(parsed.rows[i]),
                             answer |-> NoAnswer,
                             requests |-> 0,
                             result |-> NoAnswer]]]
                  /\ pc' = [pc EXCEPT ![r] =
                        IF parsed.rows = <<>> THEN "replace" ELSE "validate"]
                  /\ loop' = IF parsed.rows = <<>> THEN r ELSE 0
                  /\ fetched' = [fetched EXCEPT ![r] = out.content]
                  /\ UNCHANGED <<raised, response, products, before, foreign, env>>
    /\ UNCHANGED <<db, issued>>

\* A release that wakes every waiting task.
Release_all(ts) == [j \in 1..Len(ts) |->
                      IF ts[j].st = "pending" THEN [ts[j] EXCEPT !.st = "running"] ELSE ts[j]]

\* A release that wakes no waiting task.
Release_none(ts) == ts

\* main.py 164: leaving `async with sem` wakes the longest-waiting task.
Release(ts) ==
    LET waiting == {j \in 1..Len(ts) : ts[j].st = "pending"}
    IN  IF waiting = {} THEN ts
        ELSE [ts EXCEPT ![CHOOSE j \in waiting : \A k \in waiting : j <= k].st = "running"]

\* main.py 106-167: the network has answered the image probe and the title
\* assessment of a record; the product is built, done is incremented and the
\* result is handed to as_completed (products keeps the completion order).
TaskDoneIn(r, i, answers) ==
    /\ loop = 0
    /\ i \in 1..Len(tasks[r])
    /\ tasks[r][i].st = "running"
    /\ \E a \in answers :
         LET res == validate_and_build(tasks[r][i].p_dict, a.head, a.get, a.outcome)
             n   == ImageProbe(tasks[r][i].p_dict.image_url, a.head, a.get).requests
         IN  IF res.exc
             THEN /\ tasks' = [tasks EXCEPT ![r] =
                                   [Release([@ EXCEPT ![i].st = "raised"])
                                        EXCEPT ![i].answer = a,
                                               ![i].requests = n]]
                  /\ UNCHANGED <<PROGRESS, products>>
             ELSE /\ tasks' = [tasks EXCEPT ![r] =
                                   [Release([@ EXCEPT ![i].st = "finished"])
                                        EXCEPT ![i].answer = a,
                                               ![i].requests = n,
                                               ![i].result = res]]
                  /\ products' = [products EXCEPT ![r] = Append(@, res)]
                  /\ PROGRESS' = BumpDone(PROGRESS)
    /\ UNCHANGED <<db, pc, raised, response, issued, before, foreign, loop,
                   env, fetched>>

\* main.py 172-174: the loop over as_completed ends once every result is in,
\* or leaves with the exception of a task that raised.
Gathered(r) ==
    /\ pc[r] = "validate"
    /\ loop = 0
    /\ LET sts == {tasks[r][i].st : i \in 1..Len(tasks[r])}
       IN  IF "raised" \in sts
           THEN /\ Abort(r, TaskErrorMsg)
           ELSE /\ sts = {"finished"}
                /\ pc' = [pc EXCEPT ![r] = "replace"]
                /\ loop' = r
                /\ UNCHANGED <<PROGRESS, raised, response, products, before, foreign,
                               env, fetched>>
    /\ UNCHANGED <<db, tasks, issued>>

\* main.py 177-178: DELETE FROM product, committed on its own. The statement
\* or its commit may fail, which leaves the table as it was.
DeleteCommit(r) ==
    /\ pc[r] = "replace"
    /\ loop = r
    /\ issued' = [issued EXCEPT ![r] = 1]
    /\ \E ok \in BOOLEAN :
         IF ok
         THEN /\ db' = <<>>
              /\ foreign' = Touch(r, db # <<>>)
              /\ pc' = [pc EXCEPT ![r] = "insert"]
              /\ UNCHANGED <<PROGRESS, raised, response, loop,
                             tasks, products, before, env, fetched>>
         ELSE /\ Abort(r, DbErrorMsg)
              /\ UNCHANGED <<db, tasks>>

\* main.py 179-195 and 201: the products are added and committed, the summary
\* is computed and published, and the request is answered. A failing commit
\* leaves the table empty.
InsertCommit(r) ==
    /\ pc[r] = "insert"
    /\ loop = r
    /\ issued' = [issued EXCEPT ![r] = 2]
    /\ \E ok \in BOOLEAN :
         IF ok
         THEN LET out == Summary(products[r])
              IN  /\ db' = products[r]
                  /\ foreign' = [Touch(r, products[r] # <<>>) EXCEPT ![r] = FALSE]
                  /\ PROGRESS' = FinishProgress(PROGRESS, out)
                  /\ response' = [response EXCEPT ![r] = OkResponse(out)]
                  /\ pc' = [pc EXCEPT ![r] = "done"]
                  /\ products' = [products EXCEPT ![r] = <<>>]
                  /\ before' = [before EXCEPT ![r] = <<>>]
                  /\ fetched' = [fetched EXCEPT ![r] = NoContent]
                  /\ loop' = 0
                  /\ UNCHANGED <<tasks, raised, env>>
         ELSE /\ Abort(r, DbErrorMsg)
              /\ UNCHANGED <<db, tasks>>

FetchDone(r) == FetchDoneIn(r, Contents)

TaskDone(r, i) == TaskDoneIn(r, i, Answers)

Next ==
    \/ \E r \in Runs : Trigger(r)
    \/ \E r \in Runs : FetchDone(r)
    \/ \E r \in Runs : \E i \in 1..Len(tasks[r]) : TaskDone(r, i)
    \/ \E r \in Runs : Gathered(r)
    \/ \E r \in Runs : DeleteCommit(r)
    \/ \E r \in Runs : InsertCommit(r)

Spec == Init /\ [][Next]_vars

\* One request on its own, over the wider feeds and answers.
RunFetchDone == FetchDoneIn(1, RunContents)

RunTaskDone(i) == TaskDoneIn(1, i, RunAnswers)

NextRun ==
    \/ Trigger(1)
    \/ RunFetchDone
    \/ \E i \in 1..Len(tasks[1]) : RunTaskDone(i)
    \/ Gathered(1)
    \/ DeleteCommit(1)
    \/ InsertCommit(1)

RunSpec == Init /\ [][NextRun]_vars

\* One request in any environment, over feeds that start with a banner line
\* (a line without ';' is a line of one field).
T_banner == <<"F","e","e","d">>

LineBanner == <<T_banner>>

FeedContents == {<<>>, Feed(1, 1), <<LineBanner>> \o Feed(0, 1),
                 <<LineBanner>> \o Feed(1, 1), <<LineBanner, LineBanner>> \o Feed(2, 1)}

FeedInit == InitIn(Envs)

FeedFetchDone == FetchDoneIn(1, FeedContents)

FeedTaskDone(i) == TaskDoneIn(1, i, Answers)

NextFeed ==
    \/ Trigger(1)
    \/ FeedFetchDone
    \/ \E i \in 1..Len(tasks[1]) : FeedTaskDone(i)
    \/ Gathered(1)
    \/ DeleteCommit(1)
    \/ InsertCommit(1)

FeedSpec == FeedInit /\ [][NextFeed]_vars

\* One request over feeds of one record, in which one field at a time takes
\* each of the values below, against every pair of probe answers and a range
\* of assessments.
T_ean8_dashed   == <<"1","2","3","4","-","5","6","7","8">>
T_ean9          == <<"1","2","3","4","5","6","7","8","9">>
T_ean12         == <<"1","2","3","4","5","6","7","8","9","0","1","2">>
T_ean14         == <<"1","2","3","4","5","6","7","8","9","0","1","2","3","4">>
T_dash_padded   == <<" ","-"," ">>
T_marker        == T_identifier_exists \o <<"=","n","o">>
T_marker_spaced == <<"I","d","e","n","t","i","f","i","e","r","_","E","x","i","s","t","s",
                     " ","="," ","N","O"," ">> \o T_ean13

EanValues == {T_ean13, T_ean8_dashed, T_ean9, T_ean12, T_ean14, T_12AB, <<>>,
              T_dash, T_zero, T_None, T_dash_padded, T_marker, T_marker_spaced}

T_neg      == <<"-","5">>
T_nan      == <<"N","a","N">>
T_inf      == <<"i","n","f">>
T_zero_dec == <<"0",",","0","0">>
T_small    == <<"0",",","0","1">>

PriceValues == {T_price, T_zero, T_abc, <<>>, T_neg, T_nan, T_inf, T_zero_dec, T_small}

T_img_padded == <<" ">> \o T_img
T_img_upper  == <<"H","T","T","P",":","/","/","i">>

UrlValues == {T_img, <<>>, T_ftp, T_img_padded, T_img_upper}

FieldLines ==
    {<<T_Bike, T_price, e, T_img>> : e \in EanValues}
        \cup {<<T_Bike, p, T_ean13, T_img>> : p \in PriceValues}
        \cup {<<T_Bike, T_price, T_ean13, u>> : u \in UrlValues}
        \cup {LineShort, <<T_Bike>>}

FieldContents == {<<Header, line>> : line \in FieldLines}

Heads == {NetErr, Resp(200), Resp(301), Resp(399), Resp(400), Resp(404), Resp(405), Resp(500)}

Gets == {NetErr, Resp(200), Resp(206), Resp(399), Resp(400), Resp(404)}

\* A suggestion longer than the 1024 characters kept, with a leading blank.
LongTitle == <<" ">> \o [i \in 1..1030 |-> "x"]

T_Better_padded == <<" ">> \o T_Better \o <<" ">>

FieldOutcomes ==
    {AssessRaise,
     AssessDict(T_ok, T_Better),
     AssessDict(T_weak, LongTitle),
     AssessDict(T_weak, T_blank),
     AssessDict(T_weak, None),
     AssessDict(T_empty, T_Better_padded),
     AssessDict(T_cant_generate, T_Better)}

FieldAnswers ==
    {Answer(h, g, AssessNone) : h \in Heads, g \in Gets}
        \cup {Answer(Resp(200), Resp(200), o) : o \in FieldOutcomes}

FieldFetchDone == FetchDoneIn(1, FieldContents)

FieldTaskDone(i) == TaskDoneIn(1, i, FieldAnswers)

NextField ==
    \/ Trigger(1)
    \/ FieldFetchDone
    \/ \E i \in 1..Len(tasks[1]) : FieldTaskDone(i)
    \/ Gathered(1)
    \/ DeleteCommit(1)
    \/ InsertCommit(1)

FieldSpec == Init /\ [][NextField]_vars

\* One request over feeds of about as many records as the semaphore admits,
\* and more: the same line repeated, with one answer, so that the order in
\* which the records finish is all that varies.
PoolFeed(n) == <<Header>> \o [i \in 1..n |-> LineGood]

PoolContents == {PoolFeed(n) : n \in (SemLimit - 1)..(SemLimit + MaxOver)}

PoolAnswers == {Answer(Resp(200), Resp(200), AssessNone)}

PoolFetchDone == FetchDoneIn(1, PoolContents)

PoolTaskDone(i) == TaskDoneIn(1, i, PoolAnswers)

NextPool ==
    \/ Trigger(1)
    \/ PoolFetchDone
    \/ \E i \in 1..Len(tasks[1]) : PoolTaskDone(i)
    \/ Gathered(1)
    \/ DeleteCommit(1)
    \/ InsertCommit(1)

PoolSpec == Init /\ [][NextPool]_vars

\* ------------------------------------------------- one run, every call timing out

\* validators.py 14 and 20, ai_title.py 174 and 195: every request carries a
\* timeout; a resource that never answers ends its request as an exception.
StallAnswers == {Answer(NetErr, NetErr, AssessRaise)}

\* A record whose identifier is the placeholder 0 and whose image is remote.
LineStall == <<T_Bike, T_price, T_zero, T_img>>

StallFeed(n) == <<Header>> \o [i \in 1..n |-> LineStall]

\* Feeds of fewer records than the pool admits, and of more.
StallContents == {StallFeed(n) : n \in (SemLimit - 1)..(SemLimit + MaxOver)}

LiveFetchDone == FetchDoneIn(1, StallContents)

LiveTaskDone(i) == TaskDoneIn(1, i, StallAnswers)

NextLive ==
    \/ Trigger(1)
    \/ LiveFetchDone
    \/ \E i \in 1..Len(tasks[1]) : LiveTaskDone(i)
    \/ Gathered(1)
    \/ DeleteCommit(1)
    \/ InsertCommit(1)

\* A step of the run other than the arrival of the request.
LiveStep ==
    \/ LiveFetchDone
    \/ \E i \in 1..Len(tasks[1]) : LiveTaskDone(i)
    \/ Gathered(1)
    \/ DeleteCommit(1)
    \/ InsertCommit(1)

\* The event loop runs a callback that is ready, and a call that has a
\* timeout returns: while the run can take a step, it takes one. A request
\* need not arrive, so Trigger has no fairness.
Fairness == WF_vars(LiveStep)

LiveSpec == Init /\ [][NextLive]_vars /\ Fairness

\* ------------------------------------------------------------------ claims

Ends(r) == InFlight(r) /\ pc'[r] \in {"done", "failed"}

\* C1: single-flight: a trigger issued while a run is in progress is rejected;
\* at most one run is ever in progress.
C1_SingleFlight == Cardinality({r \in Runs : InFlight(r)}) <= 1

\* C2: in every reachable state of RunState, 0 <= completed <= total.
C2_CompletedWithinTotal == 0 <= PROGRESS.done /\ PROGRESS.done <= PROGRESS.total

\* C3: a failed run (whatever step failed, the store replacement included)
\* leaves the persisted dataset exactly as it was when the run was triggered
\* (no other run having changed it meanwhile).
C3_FailedRunLeavesDataset ==
    [][\A r \in Runs :
          (InFlight(r) /\ pc'[r] = "failed" /\ ~foreign[r]) => db' = before[r]]_vars

\* C4: delete-all and insert-the-new-set are one committed unit: every change
\* of the committed dataset installs the full new set of some run; the store
\* is never committed with the old rows gone and the new ones not yet in.
C4_ReplaceIsOneCommit ==
    [][db' # db => \E r \in Runs : InFlight(r) /\ db' = products[r]]_vars

\* C5, as claimed: at the end of every run, whether it succeeded or failed,
\* running is false and last_summary is populated.
C5_SummaryAtEveryRunEnd ==
    [][\A r \in Runs :
          Ends(r) => (PROGRESS'.running = FALSE /\ PROGRESS'.summary # NoSummary)]_vars

\* C5, amended: at the end of every run, whether it succeeded or failed,
\* running is false; a run that succeeds populates last_summary in the step
\* that ends it (with the summary it answers), a run that fails leaves
\* last_summary as it was, and last_summary is populated in no other step.
C5_RunEnd ==
    [][/\ \A r \in Runs :
            Ends(r) =>
              /\ PROGRESS'.running = FALSE
              /\ pc'[r] = "done" =>
                   /\ PROGRESS'.summary # NoSummary
                   /\ PROGRESS'.summary = response'[r].body
              /\ pc'[r] = "failed" => PROGRESS'.summary = PROGRESS.summary
       /\ (PROGRESS'.summary # PROGRESS.summary /\ PROGRESS'.summary # NoSummary)
            => \E r \in Runs : InFlight(r) /\ pc'[r] = "done"]_vars

\* C5 witness: one run has ended with a summary and another has ended failed.
C5_Witness ==
    \E r \in Runs : \E q \in Runs :
        /\ pc[r] = "done" /\ response[r].status = 200
        /\ pc[q] = "failed"

\* C6: at the moment a run's summary is populated, completed equals total and
\* total equals the number of records parsed for that run.
C6_CompletedIsTotalAtSummary ==
    [][\A r \in Runs :
          (InFlight(r) /\ pc'[r] = "done") =>
             /\ PROGRESS'.done = PROGRESS'.total
             /\ PROGRESS'.total = Len(tasks[r])]_vars

\* C7: if fetch or parse raises, the run aborts: running is false afterwards,
\* no delete or insert has been issued against the dataset, which is
\* unchanged, and the error answered is the error that was raised.
C7_FetchParseAbort ==
    [][\A r \in Runs :
          (pc[r] = "fetch" /\ pc'[r] = "failed") =>
             /\ PROGRESS'.running = FALSE
             /\ issued'[r] = 0
             /\ db' = db
             /\ raised'[r] \in {FetchErrorMsg, ParseErrorMsg}
             /\ response'[r].status = 500
             /\ response'[r].error = raised'[r]]_vars

\* C7 witness: a run has been aborted by the parser, and one by the fetch.
C7_Witness ==
    \E r \in Runs : \E q \in Runs :
        /\ pc[r] = "failed" /\ raised[r] = ParseErrorMsg
        /\ pc[q] = "failed" /\ raised[q] = FetchErrorMsg

\* What a validated record must look like: a defined status in each dimension.
Defined(p) ==
    /\ p.price_status \in {"ok", "missing"}
    /\ p.ean_status \in {"ok", "missing", "wrong"}
    /\ p.image_status \in {"ok", "broken"}
    /\ p.name_status \in {"OK", "weak", "empty"}

Rows(seq) == {seq[i] : i \in 1..Len(seq)}

\* C8: no record-level failure aborts a run: whatever the image probes and the
\* title assessments of the records answer, no task ends with an exception and
\* no run is aborted by one, every validated record has a defined status in
\* each dimension, and a run that ends successfully has replaced the dataset
\* by one row per record and populated the summary.
C8_RecordFailuresAbsorbed ==
    \A r \in Runs :
        /\ \A i \in 1..Len(tasks[r]) :
              /\ tasks[r][i].st # "raised"
              /\ tasks[r][i].st = "finished" => Defined(tasks[r][i].result)
        /\ raised[r] # TaskErrorMsg
        /\ pc[r] = "failed" => raised[r] \in {FetchErrorMsg, ParseErrorMsg, DbErrorMsg}
        /\ pc[r] = "done" =>
              /\ response[r].status = 200
              /\ response[r].body.ingested = Len(tasks[r])
              /\ PROGRESS.summary = response[r].body
              /\ Len(db) = Len(tasks[r])
              /\ \A row \in Rows(db) : Defined(row)
              /\ \A i \in 1..Len(tasks[r]) : tasks[r][i].result \in Rows(db)

Failing(outcome) == outcome.kind \in {"raise", "none"}

\* C8 witness: a run has ended successfully with two records, for one of which
\* both the image probe and the assessment failed, for the other only one did.
C8_Witness ==
    /\ pc[1] = "done"
    /\ \E i \in 1..Len(tasks[1]) : \E j \in 1..Len(tasks[1]) :
          /\ tasks[1][i].answer.head.exc /\ Failing(tasks[1][i].answer.outcome)
          /\ ~tasks[1][j].answer.head.exc /\ Failing(tasks[1][j].answer.outcome)
          /\ tasks[1][i].result.image_status = "broken"
          /\ tasks[1][j].result.image_status = "ok"

\* The assessment failed, or answered a quality that is none of ok, weak, empty.
Unrecognised(outcome) ==
    \/ Failing(outcome)
    \/ /\ outcome.kind = "dict"
       /\ Lower(Strip(outcome.name_quality)) \notin {T_ok, T_weak, T_empty}

OnlyWhitespace(name) == name = None \/ \A k \in 1..Len(name) : name[k] \in Whitespace

\* C9: when the assessment call fails or answers a quality other than ok, weak
\* or empty, the title status is decided by presence alone: empty if the name
\* is blank, otherwise ok; the suggestion is null; no exception leaves
\* validation.
C9_PresenceOnlyFallback ==
    \A r \in Runs : \A i \in 1..Len(tasks[r]) :
        (tasks[r][i].st \in {"finished", "raised"}
            /\ Unrecognised(tasks[r][i].answer.outcome)) =>
           /\ tasks[r][i].st = "finished"
           /\ tasks[r][i].result.name_status =
                 IF OnlyWhitespace(tasks[r][i].p_dict.name) THEN "empty" ELSE "OK"
           /\ tasks[r][i].result.name_suggested = None

\* C9 witness: the fallback has decided ok for a named record whose assessment
\* raised and empty for a blank-named one whose assessment answered
\* cant_generate.
C9_Witness ==
    \E i \in 1..Len(tasks[1]) : \E j \in 1..Len(tasks[1]) :
        /\ tasks[1][i].st = "finished" /\ tasks[1][j].st = "finished"
        /\ tasks[1][i].answer.outcome = AssessRaise
        /\ tasks[1][i].result.name_status = "OK"
        /\ tasks[1][j].answer.outcome.kind = "dict"
        /\ tasks[1][j].answer.outcome.name_quality = T_cant_generate
        /\ tasks[1][j].result.name_status = "empty"

AllOk(p) ==
    /\ p.price_status = "ok" /\ p.ean_status = "ok"
    /\ p.image_status = "ok" /\ p.name_status = "OK"

\* Every record the program holds: results of tasks, gathered products, rows.
Validated ==
    UNION {Rows(products[r]) : r \in Runs} \cup Rows(db)
        \cup UNION {{tasks[r][i].result : i \in {k \in 1..Len(tasks[r]) :
                                                   tasks[r][k].st = "finished"}}
                    : r \in Runs}

\* C10: for every validated record, overall_status is ok if and only if the
\* price, identifier, image and title statuses are all ok, and issue otherwise.
C10_OverallFromStatuses ==
    \A p \in Validated :
        /\ p.validation_result \in {"OK", "ISSUE"}
        /\ p.validation_result = "OK" <=> AllOk(p)

\* C10 witness: the dataset holds a record that is ok in every dimension and
\* one whose only flaw is a weak title.
C10_Witness ==
    \E p \in Rows(db) : \E q \in Rows(db) :
        /\ AllOk(p) /\ p.validation_result = "OK"
        /\ q.price_status = "ok" /\ q.ean_status = "ok" /\ q.image_status = "ok"
        /\ q.name_status = "weak" /\ q.validation_result = "ISSUE"

\* The finished tasks of a run.
Finished(r) == {i \in 1..Len(tasks[r]) : tasks[r][i].st = "finished"}

\* The identifier status as the claim states it ("wrong" is the stored value
\* of the status the claim calls malformed).
ClaimedIdentifierStatus(raw) ==
    IF \/ raw = None \/ raw = <<>>
       \/ Strip(raw) \in Sentinels
       \/ IdentifierMissingPat(raw)
    THEN "missing"
    ELSE IF Len(OnlyDigits(raw)) \notin {8, 12, 13, 14} THEN "wrong" ELSE "ok"

\* C11, as claimed: identifier_status is missing for an empty value, a
\* sentinel or a match of the 'identifier does not exist' marker; otherwise
\* malformed if the digit count is not in {8, 12, 13, 14}; otherwise ok.
C11_IdentifierStatus ==
    \A r \in Runs : \A i \in Finished(r) :
        tasks[r][i].result.ean_status = ClaimedIdentifierStatus(tasks[r][i].p_dict.ean)

\* C12, as claimed: fetch() falls back from one strategy to the next and fails
\* only when none yields bytes: a run never fails at fetch while a local copy
\* of the feed exists, whether or not an override is configured.
C12_FetchFallsBack ==
    \A r \in Runs : (pc[r] = "failed" /\ raised[r] \in FetchErrors) => ~env.local

\* A line holds a ';' exactly when it splits into two fields or more.
Separated(line) == Len(line) >= 2

\* The number of leading lines of a feed without ';'.
Banners(c) ==
    CHOOSE b \in 0..Len(c) :
        /\ \A i \in 1..b : ~Separated(c[i])
        /\ b = Len(c) \/ Separated(c[b + 1])

\* Banner lines, then a header and data lines that all hold a ';'.
BannerFeed(c) ==
    /\ Banners(c) < Len(c)
    /\ \A i \in (Banners(c) + 1)..Len(c) : Separated(c[i])

\* C13, as claimed: for a feed of banner lines without ';' followed by a header
\* and data lines, the header is the first line with a ';' and there is exactly
\* one record per following line, in feed order.
C13_BannerLinesDiscarded ==
    \A r \in Runs :
        (pc[r] \in {"validate", "replace", "insert"} /\ BannerFeed(fetched[r])) =>
            LET c == fetched[r]
                b == Banners(c)
            IN  /\ Len(tasks[r]) = Len(c) - b - 1
                /\ \A i \in 1..Len(tasks[r]) :
                      tasks[r][i].p_dict = map_row(DictRow(c[b + 1], c[b + 1 + i]))

\* C14: an absent URL or one not starting with 'http' gives broken without any
\* request; otherwise a HEAD is issued and, only if its status is >= 400,
\* exactly one ranged GET follows; image_status is ok iff the last response
\* received has a status < 400; a network exception gives broken; at most two
\* requests are made per record.
C14_ImageProbe ==
    \A r \in Runs : \A i \in Finished(r) :
        LET t      == tasks[r][i]
            url    == t.p_dict.image_url
            usable == url # None /\ StartsWith(url, T_http)
            second == usable /\ ~t.answer.head.exc /\ t.answer.head.status >= 400
            last   == IF second THEN t.answer.get ELSE t.answer.head
        IN  /\ t.requests = (IF ~usable THEN 0 ELSE IF second THEN 2 ELSE 1)
            /\ t.requests <= 2
            /\ t.result.image_status =
                  (IF usable /\ ~t.answer.head.exc /\ ~last.exc /\ last.status < 400
                   THEN "ok" ELSE "broken")
            /\ t.result.broken_image = (t.result.image_status = "broken")

\* C14 witness: a HEAD answered 405 and the ranged GET 200: two requests, ok.
C14_Witness ==
    \E i \in Finished(1) :
        /\ tasks[1][i].answer.head = Resp(405) /\ tasks[1][i].answer.get = Resp(200)
        /\ tasks[1][i].requests = 2
        /\ tasks[1][i].result.image_status = "ok"

\* The normalized price is a number (or infinity) above zero.
Positive(f) ==
    \/ f.kind = "num" /\ f.mant > 0
    \/ f.kind = "inf" /\ ~f.neg

\* The normalized price is absent, or a number (or infinity) not above zero.
AbsentOrNotPositive(f) ==
    \/ f.kind = "none"
    \/ f.kind = "num" /\ f.mant <= 0
    \/ f.kind = "inf" /\ f.neg

\* C15, as claimed: price_status is missing iff the normalized price is absent
\* (unparsable input included) or <= 0, and ok iff the price is > 0.
C15_PriceStatus ==
    \A r \in Runs : \A i \in Finished(r) :
        /\ tasks[r][i].result.price_status = "missing"
              <=> AbsentOrNotPositive(tasks[r][i].p_dict.price)
        /\ tasks[r][i].result.price_status = "ok"
              <=> Positive(tasks[r][i].p_dict.price)

\* The records of a run whose validation is in progress: the tasks inside
\* `async with sem`.
InProgress(r) == {i \in 1..Len(tasks[r]) : tasks[r][i].st = "running"}

\* C16: during a run, the number of records whose validation is in progress at
\* the same time never exceeds the concurrency ceiling of 8, whatever the
\* number of records in the feed.
C16_PoolCeiling == \A r \in Runs : Cardinality(InProgress(r)) <= SemLimit

\* C16 witness: the feed has more records than the ceiling, some have
\* finished, some still wait, and the pool is full.
C16_Witness ==
    /\ Len(tasks[1]) > SemLimit
    /\ Cardinality(InProgress(1)) = SemLimit
    /\ Finished(1) # {}
    /\ \E i \in 1..Len(tasks[1]) : tasks[1][i].st = "pending"

\* The steps of a run between the initialisation of PROGRESS and its summary.
Counting(r) == pc[r] \in {"validate", "replace", "insert"}

\* C17, as claimed: from the start of a run until its summary is populated,
\* completed is never decreased or reset, under any completion order and any
\* interleaving of trigger calls.
C17_CompletedMonotone ==
    [][\A r \in Runs : Counting(r) => PROGRESS'.done >= PROGRESS.done]_vars

\* C18, as claimed: at every point between a run's trigger and its end, while
\* it is fetching or parsing included, running is true.
C18_RunningFromEntry == \A r \in Runs : InFlight(r) => PROGRESS.running = TRUE

\* The number of times x occurs in a list.
Count(seq, x) == Cardinality({i \in 1..Len(seq) : seq[i] = x})

\* C19: on a successful run, ingested equals the number of records parsed and
\* the number of rows stored, the rows are the records (none lost, none
\* duplicated, in whatever order they completed), flagged_issues is the number
\* of them whose overall status is ISSUE, and the exemplar title, if any, is
\* the suggestion of a record whose title status is weak or empty.
C19_SummaryOfRun ==
    \A r \in Runs :
        pc[r] = "done" =>
            LET out     == response[r].body
                results == [i \in 1..Len(tasks[r]) |-> tasks[r][i].result]
            IN  /\ out.ingested = Len(tasks[r])
                /\ out.ingested = Len(db)
                /\ \A x \in Rows(db) \cup Rows(results) : Count(db, x) = Count(results, x)
                /\ out.flagged_issues =
                      Cardinality({i \in 1..Len(db) : db[i].validation_result = "ISSUE"})
                /\ out.example_improved_title # None =>
                      \E i \in 1..Len(db) :
                          /\ db[i].name_status \in {"weak", "empty"}
                          /\ db[i].name_suggested = out.example_improved_title
                          /\ db[i].name = out.example_old_title

\* C19 witness: a run of two records that completed in the reverse of the feed
\* order has ended with one of them flagged and an exemplar title.
C19_Witness ==
    /\ pc[1] = "done"
    /\ response[1].body.ingested = 2
    /\ response[1].body.flagged_issues = 1
    /\ response[1].body.example_improved_title # None
    /\ db[1] = tasks[1][2].result
    /\ db[1] # tasks[1][1].result

\* The assessment answered the quality ok, in any case and padding.
AnsweredOk(outcome) ==
    /\ outcome.kind = "dict"
    /\ Lower(Strip(outcome.name_quality)) = T_ok

\* C20: title_suggestion is non-null only if title_status is weak or empty,
\* is never blank and is at most 1024 characters long; when the assessment
\* answers ok the suggestion is null even if one was supplied.
C20_SuggestionBounded ==
    \A r \in Runs : \A i \in Finished(r) :
        LET t == tasks[r][i]
            s == t.result.name_suggested
        IN  /\ s # None =>
                  /\ t.result.name_status \in {"weak", "empty"}
                  /\ Strip(s) # <<>>
                  /\ Len(s) <= 1024
            /\ AnsweredOk(t.answer.outcome) => s = None

\* C20 witness: a suggestion longer than 1024 characters was cut to 1024 for
\* a weak title.
C20_Witness ==
    \E i \in Finished(1) :
        /\ tasks[1][i].answer.outcome = AssessDict(T_weak, LongTitle)
        /\ tasks[1][i].result.name_status = "weak"
        /\ Len(tasks[1][i].result.name_suggested) = 1024

\* The records of run r that came from a data line with fewer fields than
\* the header (the feed has no blank line, so record i is line i + 1).
ShortLines(r) ==
    IF Counting(r) /\ Len(tasks[r]) = Len(fetched[r]) - 1
    THEN {i \in 1..Len(tasks[r]) : Len(fetched[r][i + 1]) < Len(fetched[r][1])}
    ELSE {}

\* C21: for every data line with fewer fields than the header, every header
\* name maps to a string: the fields missing at the end of the line map to
\* the empty string, never to an absent value, and every value is trimmed of
\* surrounding whitespace.
C21_ShortLinesPadded ==
    \A r \in Runs : \A i \in ShortLines(r) :
        \A v \in {tasks[r][i].p_dict.name, tasks[r][i].p_dict.ean,
                  tasks[r][i].p_dict.image_url} :
            v # None /\ Strip(v) = v

\* C22: if every outbound call returns or times out and the workers are
\* scheduled fairly, every triggered run eventually ends with running =
\* false: records whose resources never answer keep neither the other
\* records from being validated nor the run from finishing.
C22_EveryRunEnds ==
    \A r \in Runs :
        InFlight(r) ~> (pc[r] \in {"done", "failed"} /\ PROGRESS.running = FALSE)

\* C22 witness: a run of more records than the pool admits has ended, every
\* probe of every record having timed out, and every record was validated.
C22_Witness ==
    /\ pc[1] = "done"
    /\ PROGRESS.running = FALSE
    /\ Len(tasks[1]) > SemLimit
    /\ Finished(1) = 1..Len(tasks[1])
    /\ \A i \in 1..Len(tasks[1]) : tasks[1][i].answer \in StallAnswers

\* C23: whenever running is false, total and completed do not change until
\* the next run resets them: no worker of any run increments completed after
\* running has been set to false, be it by an aborted run or by an
\* overlapping trigger that failed.
C23_FrozenWhileNotRunning ==
    [][(PROGRESS.running = FALSE /\ PROGRESS'.running = FALSE) =>
           (PROGRESS'.total = PROGRESS.total /\ PROGRESS'.done = PROGRESS.done)]_vars

\* C24: a run that fails during fetch or parse changes nothing in RunState
\* except setting running to false: total, completed and last_summary keep
\* the values the previous run left.
C24_FetchFailureFrame ==
    [][\A r \in Runs :
          (pc[r] = "fetch" /\ pc'[r] = "failed") =>
              PROGRESS' = [PROGRESS EXCEPT !.running = FALSE]]_vars

\* C24 witness: after a run that ended with a summary of one record, the
\* next run failed in fetch or parse and the tracker still shows the summary
\* and the counters of the first.
C24_Witness ==
    /\ pc[1] = "done"
    /\ pc[2] = "failed"
    /\ raised[2] \in {FetchErrorMsg, ParseErrorMsg}
    /\ PROGRESS.running = FALSE
    /\ PROGRESS.total = 1
    /\ PROGRESS.done = 1
    /\ PROGRESS.summary # NoSummary
    /\ PROGRESS.summary = response[1].body

\* C25: on every validated record the legacy flags agree with the statuses:
\* missing_price iff price_status is missing, broken_image iff image_status
\* is broken, missing_identifier iff ean_status is not ok.
C25_FlagsAgreeWithStatuses ==
    \A r \in Runs : \A i \in Finished(r) :
        LET p == tasks[r][i].result
        IN  /\ p.missing_price = (p.price_status = "missing")
            /\ p.broken_image = (p.image_status = "broken")
            /\ p.missing_identifier = (p.ean_status # "ok")

\* C25 witness: a record whose identifier is the not-found marker followed
\* by thirteen digits is flagged and has the status wrong, its price and
\* image being in order.
C25_Witness ==
    \E i \in Finished(1) :
        LET p == tasks[1][i].result
        IN  /\ p.ean = T_marker_spaced
            /\ p.missing_identifier /\ p.ean_status = "wrong"
            /\ ~p.missing_price /\ p.price_status = "ok"
            /\ ~p.broken_image /\ p.image_status = "ok"
====
